---- MODULE Spec2Model ----
(***************************************************************************)
(* linkinator: the crawl engine of LinkChecker (check / crawl) over a      *)
(* p-queue work queue, a shared cache (visited set) and a shared results   *)
(* array.                                                                  *)
(*                                                                         *)
(* JavaScript runs one callback at a time, so every action below is one    *)
(* run-to-completion segment of the code: from the start of crawl() to its *)
(* first await, from the resumption after an await to the next await or to *)
(* the end of crawl().                                                     *)
(*                                                                         *)
(* A URL string is modelled as a sequence of tokens (substrings), e.g.     *)
(* "http://x/a" is <<"http://", "x", "/", "a">>; startsWith is the prefix  *)
(* test on the token sequence, a regular expression /^lit/ tests the first *)
(* token and /lit/ any token.                                              *)
(***************************************************************************)
EXTENDS Integers, Sequences, FiniteSets, TLC

VARIABLES
    options,     \* CheckOptions: path, recurse, concurrency, linksToSkip
    cache,       \* Set<string> of urls already scanned (CrawlOptions.cache)
    results,     \* Array<LinkResult> shared by all crawl tasks
    queue,       \* p-queue: ids of the jobs added and not yet started (FIFO)
    tasks,       \* every crawl call ever added to the queue, by id
    pagestarts,  \* urls of the 'pagestart' events emitted so far
    pc,          \* position of check(): "onIdle" (line 85) or "done" (line 94)
    result,      \* the CrawlResult returned by check()
    extraction   \* a call of getLinks (links.ts): its arguments and its value

vars ==
    <<options, cache, results, queue, tasks, pagestarts, pc, result, extraction>>

----------------------------------------------------------------------------
(* Bounds of the model *)

\* options.concurrency is drawn from 0..MaxConcurrency (0: not given)
MaxConcurrency == 2
\* no more than MaxTasks crawl calls are ever added to the queue
MaxTasks == 11
\* a document handed to getLinks has no more than MaxElements elements
MaxElements == 3

(* Program constants *)
DefaultConcurrency == 100
MethodNotAllowed == 405
OkFrom == 200
OkBelow == 300
FailedStatus == 0

----------------------------------------------------------------------------
(* LinkState *)
OK == "OK"
BROKEN == "BROKEN"
SKIPPED == "SKIPPED"

\* an absent (undefined) parent
NoParent == <<>>
\* check() has not returned yet
NoResult == [links |-> <<>>, passed |-> FALSE, returned |-> FALSE]
\* getLinks is not under study
NoExtraction ==
    [source |-> <<>>, baseUrl |-> <<>>, links |-> <<>>, called |-> FALSE]

----------------------------------------------------------------------------
(* Strings and urls *)

\* String.prototype.startsWith
StartsWith(s, p) == Len(p) <= Len(s) /\ SubSeq(s, 1, Len(p)) = p

\* the host of new URL(url): the tokens between the scheme and the path
RECURSIVE HostEnd(_, _)
HostEnd(url, i) ==
    IF i > Len(url) \/ url[i] = "/" THEN i - 1 ELSE HostEnd(url, i + 1)

UrlHost(url) ==
    IF url[1] \in {"http://", "https://"}
    THEN SubSeq(url, 2, HostEnd(url, 2))
    ELSE <<>>

\* tokens no host may hold: a port that is not a number
BadPorts == {":bad"}

\* new URL(url) does not throw: the url has a scheme and, under http(s), a
\* host that is not empty and is well formed ("C:\\" is read as scheme c:)
UrlParses(url) ==
    /\ Len(url) > 0
    /\ url[1] \in {"http://", "https://", "mailto:", "irc:", "data:", "C:\\"}
    /\ url[1] \in {"http://", "https://"} =>
          /\ UrlHost(url) # <<>>
          /\ \A i \in 1..Len(UrlHost(url)) : UrlHost(url)[i] \notin BadPorts

----------------------------------------------------------------------------
(* links.ts. A document is the sequence of its elements in document order; *)
(* an element carries one attribute: [tag, attr, value], the value being a *)
(* string. Relative references are a path ("page.html"), or an absolute    *)
(* path ("/", "docs", "/"); "#top" is a fragment.                          *)

\* AttributeRules of getBaseLinkAttributes(), in key order
getBaseLinkAttributes ==
    << [attr |-> "background", tags |-> {"body"}],
       [attr |-> "cite", tags |-> {"blockquote", "del", "ins", "q"}],
       [attr |-> "data", tags |-> {"object"}],
       [attr |-> "href", tags |-> {"a", "area", "embed", "link"}],
       [attr |-> "icon", tags |-> {"command"}],
       [attr |-> "longdesc", tags |-> {"frame", "iframe"}],
       [attr |-> "manifest", tags |-> {"html"}],
       [attr |-> "poster", tags |-> {"video"}],
       [attr |-> "pluginspage", tags |-> {"embed"}],
       [attr |-> "pluginurl", tags |-> {"embed"}],
       [attr |-> "src", tags |-> {"audio", "embed", "frame", "iframe", "img",
                                  "input", "script", "source", "track",
                                  "video"}],
       [attr |-> "srcset", tags |-> {"img", "source"}],
       [attr |-> "style", tags |-> {""}] >>

\* url.hash = ''
StripHash(url) == SelectSeq(url, LAMBDA tok : tok # "#top")

\* the last "/" of a url at or before position i (0: none)
RECURSIVE LastSlash(_, _)
LastSlash(url, i) ==
    IF i = 0 \/ url[i] = "/" THEN i ELSE LastSlash(url, i - 1)

\* URL.href of a url that parses: an http(s) url without a path gets "/"
Href(url) ==
    IF url[1] \in {"http://", "https://"} /\ HostEnd(url, 2) = Len(url)
    THEN url \o <<"/">>
    ELSE url

\* new URL(link, base) with the fragment removed: ok is false when the
\* constructor throws. A link with a scheme is parsed alone; any other link
\* needs an http(s) base and replaces its path (absolute path) or the last
\* segment of its path (relative path); the empty link is the base itself
NewURL(link, base) ==
    LET l == StripHash(link)
        b == StripHash(base)
        Failure == [ok |-> FALSE, href |-> <<>>]
    IN  IF l # <<>> /\ l[1] \in {"http://", "https://", "mailto:", "irc:",
                                  "data:", "C:\\"}
        THEN IF UrlParses(l) THEN [ok |-> TRUE, href |-> Href(l)] ELSE Failure
        ELSE IF ~UrlParses(b) \/ b[1] \notin {"http://", "https://"}
        THEN Failure
        ELSE LET h == Href(b)
             IN  IF l = <<>> THEN [ok |-> TRUE, href |-> h]
                 ELSE IF l[1] = "/"
                 THEN [ok |-> TRUE,
                       href |-> SubSeq(h, 1, HostEnd(h, 2)) \o l]
                 ELSE [ok |-> TRUE,
                       href |-> SubSeq(h, 1, LastSlash(h, Len(h))) \o l]

\* parseLink(link, baseUrl): { link, url } or { link, error }
parseLink(link, baseUrl) ==
    LET url == NewURL(link, baseUrl)
    IN  [link |-> link, url |-> url.href, error |-> ~url.ok]

\* isAbsoluteUrl(url): not a Windows path, and starts with a scheme
isAbsoluteUrl(url) ==
    IF url[1] = "C:\\"
    THEN FALSE
    ELSE url[1] \in {"http://", "https://", "mailto:", "irc:", "data:"}

\* getBaseUrl(htmlBaseUrl, oldBaseUrl); new URL throws only when oldBaseUrl
\* is no http(s) url, which the url of a fetched page is
getBaseUrl(htmlBaseUrl, oldBaseUrl) ==
    IF isAbsoluteUrl(htmlBaseUrl)
    THEN htmlBaseUrl
    ELSE NewURL(htmlBaseUrl, oldBaseUrl).href

\* String.prototype.split(sep)
RECURSIVE Split(_, _)
Split(s, sep) ==
    IF \A i \in 1..Len(s) : s[i] # sep
    THEN <<s>>
    ELSE LET i == CHOOSE k \in 1..Len(s) :
                      s[k] = sep /\ \A j \in 1..(k - 1) : s[j] # sep
         IN  <<SubSeq(s, 1, i - 1)>> \o Split(SubSeq(s, i + 1, Len(s)), sep)

\* String.prototype.trim()
RECURSIVE Trim(_)
Trim(s) ==
    IF s = <<>> THEN <<>>
    ELSE IF Head(s) = " " THEN Trim(Tail(s))
    ELSE IF s[Len(s)] = " " THEN Trim(SubSeq(s, 1, Len(s) - 1))
    ELSE s

\* split(/\s+/)[0]
RECURSIVE FirstWord(_)
FirstWord(s) ==
    IF s = <<>> \/ Head(s) = " " THEN <<>>
    ELSE <<Head(s)>> \o FirstWord(Tail(s))

\* value.replace(urlValueRegexp, '$2'): what the last url( ) of a style
\* value holds, '' when the rule is no background or has no url( )
StyleUrl(rules) ==
    LET parts == Split(rules, ":")
        value == parts[2]
        at == {i \in 1..(Len(value) - 2) :
                   value[i] = "url(" /\ value[i + 2] = ")"}
    IN  IF Len(parts) > 1
           /\ Trim(parts[1]) \in {<<"background">>, <<"background-image">>}
           /\ at # {}
        THEN <<value[(CHOOSE i \in at : \A j \in at : j <= i) + 1]>>
        ELSE <<>>

\* parseAttr(name, value): the strings an attribute value holds
parseAttr(name, value) ==
    CASE name = "style" ->
            LET rules == SelectSeq(Split(value, ";"), LAMBDA val : val # <<>>)
            IN  [k \in 1..Len(rules) |-> StyleUrl(rules[k])]
      [] name = "srcset" ->
            LET pairs == Split(value, ",")
            IN  [k \in 1..Len(pairs) |-> FirstWord(Trim(pairs[k]))]
      [] OTHER -> <<value>>

\* links.push(...values) over a sequence of value lists
RECURSIVE Flatten(_)
Flatten(lists) ==
    IF lists = <<>> THEN <<>> ELSE Head(lists) \o Flatten(Tail(lists))

\* base.first()
LastBase(base) == base[Len(base)]
FirstBase(base) == Head(base)

\* getLinks(source, baseUrl, linksAttr) of links.ts: ParsedUrl[]
extractLinks(source, baseUrl, linksAttr) ==
    LET Selected(rule) ==
            SelectSeq(source, LAMBDA element :
                /\ element.attr = rule.attr
                /\ element.tag \in rule.tags \/ "" \in rule.tags)
        ValuesOf(rule) ==
            Flatten([k \in 1..Len(Selected(rule)) |->
                        parseAttr(rule.attr, Selected(rule)[k].value)])
        links == Flatten([r \in 1..Len(linksAttr) |-> ValuesOf(linksAttr[r])])
        base == SelectSeq(source, LAMBDA element :
                    element.tag = "base" /\ element.attr = "href")
        realBaseUrl ==
            IF Len(base) > 0 /\ FirstBase(base).value # <<>>
            THEN getBaseUrl(FirstBase(base).value, baseUrl)
            ELSE baseUrl
        kept == SelectSeq(links, LAMBDA link : link # <<>>)
    IN  [k \in 1..Len(kept) |-> parseLink(kept[k], realBaseUrl)]

\* the url string crawl() takes from a ParsedUrl: the href when the link
\* parsed, else the link as written
LinkOf(parsed) == IF parsed.error THEN parsed.link ELSE parsed.url


----------------------------------------------------------------------------
(* The site that is crawled: urls, and the links getLinks finds in the     *)
(* body each url serves.                                                   *)

ROOT == <<"http://", "x">>
HOME == <<"http://", "x", "/">>
PAGE == <<"http://", "x", "/", "a">>
EVIL == <<"http://", "x", ".evil", "/">>
MAIL == <<"mailto:", "bob">>

\* a second site, on host e: a root page linking to a healthy page, to a
\* missing page and to a mail address
SHOP == <<"http://", "e", "/">>
GOOD == <<"http://", "e", "/", "ok">>
GONE == <<"http://", "e", "/", "gone">>

\* a third site, on host s, whose root is given without the trailing slash:
\* its document links to a page of the site, to the https form of the site,
\* to a host whose name starts like the site's and to a url with a port that
\* is no number, which no URL parser accepts
SITE == <<"http://", "s">>
INNER == <<"http://", "s", "/", "in">>
TLS == <<"https://", "s", "/">>
TWIN == <<"http://", "s", ".evil", "/">>
BAD == <<"http://", "s", ":bad", "/">>

SiteDocument ==
    << [tag |-> "a", attr |-> "href", value |-> <<"/", "in">>],
       [tag |-> "a", attr |-> "href", value |-> TLS],
       [tag |-> "a", attr |-> "href", value |-> TWIN],
       [tag |-> "a", attr |-> "href", value |-> BAD] >>

Urls == {ROOT, HOME, PAGE, EVIL, MAIL, SHOP, GOOD, GONE,
         SITE, INNER, TLS, TWIN, BAD}

\* the url strings crawl() iterates over for a document served at a url
LinksOf(source, url) ==
    LET parsed == extractLinks(source, url, getBaseLinkAttributes)
    IN  [k \in 1..Len(parsed) |-> LinkOf(parsed[k])]

\* the crawl roots check() is called with: options.path without and with
\* the trailing slash
Roots == {ROOT, HOME}

\* the absolute links of the document served at a url, in document order:
\* the root document (served at ROOT and at HOME, the form every link back to
\* the root takes) links to a page twice, to another host whose name starts
\* like the root's, and to a mail address; the page links to itself and back
\* to the root
SiteLinks(url) ==
    CASE url \in {ROOT, HOME} -> <<PAGE, EVIL, MAIL, PAGE>>
      [] url = PAGE -> <<PAGE, HOME>>
      [] url = EVIL -> <<HOME>>
      [] url = SHOP -> <<GOOD, GONE, MAIL>>
      [] url = SITE -> LinksOf(SiteDocument, SITE)
      [] OTHER -> <<>>

\* statuses the server of a url answers with
Statuses(url) ==
    CASE url = EVIL -> {199, 200, 299, 300, 405}
      [] url \in {SHOP, GOOD} -> {200}
      [] url = GONE -> {404, 405}
      [] url \in {SITE, TLS, TWIN} -> {200}
      [] url = INNER -> {200, 405}
      [] url = BAD -> {}
      [] OTHER -> {200, 404, 405}

\* content-type headers the server of a url answers with ("" : no header);
\* the root document is served as HTML, the page as XHTML
ContentTypes(url) ==
    CASE url \in {ROOT, HOME} -> {"text/html", "text/plain", ""}
      [] url \in {SHOP, SITE, INNER, TLS, TWIN} -> {"text/html"}
      [] url = PAGE -> {"application/xhtml+xml", "text/plain", ""}
      [] OTHER -> {"text/html", "application/xhtml+xml", "text/plain", ""}

\* user supplied linksToSkip lists
UserSkips == {<<>>, <<[anchored |-> FALSE, lit |-> ".evil"]>>}

----------------------------------------------------------------------------
(* Pure helpers *)

\* new RegExp(pattern).test(url)
RegExpTest(pattern, url) ==
    IF pattern.anchored
    THEN Len(url) > 0 /\ url[1] = pattern.lit
    ELSE \E i \in 1..Len(url) : url[i] = pattern.lit

BuiltinSkips ==
    << [anchored |-> TRUE, lit |-> "mailto:"],
       [anchored |-> TRUE, lit |-> "irc:"],
       [anchored |-> TRUE, lit |-> "data:"] >>

\* check(): options.linksToSkip = options.linksToSkip || []; push(builtins)
LinksToSkipUserOnly(user) == user
LinksToSkip(user) == user \o BuiltinSkips

\* crawl(): skips.length > 0
ShouldSkipFirstOnly(url, linksToSkip) ==
    Len(linksToSkip) > 0 /\ RegExpTest(linksToSkip[1], url)
ShouldSkip(url, linksToSkip) ==
    \E i \in 1..Len(linksToSkip) : RegExpTest(linksToSkip[i], url)

\* new PQueue({concurrency: options.concurrency || 100})
ConcurrencyNoDefault(opts) == opts.concurrency
ConcurrencyIgnored(opts) == DefaultConcurrency
Concurrency(opts) ==
    IF opts.concurrency = 0 THEN DefaultConcurrency ELSE opts.concurrency

\* cache.has(url)
CacheHasNever(c, url) == FALSE
CacheHas(c, url) == url \in c

\* let status = 0; let state = BROKEN; let data = ''; let shouldRecurse = false
InitiallyOk ==
    [status |-> FailedStatus, state |-> OK,
     data |-> [kind |-> "text", links |-> <<>>], shouldRecurse |-> FALSE]
Initially ==
    [status |-> FailedStatus, state |-> BROKEN,
     data |-> [kind |-> "text", links |-> <<>>], shouldRecurse |-> FALSE]

\* if (res.status >= 200 && res.status < 300) state = OK
StateOfUpTo300(status) ==
    IF status >= OkFrom /\ status <= OkBelow THEN OK ELSE Initially.state
StateOf(status) ==
    IF status >= OkFrom /\ status < OkBelow THEN OK ELSE Initially.state

\* opts.results.push(result) of a skipped link (line 140)
PushSkippedNot(rs, r) == rs
PushSkipped(rs, r) == Append(rs, r)

\* opts.results.push(result) of a fetched link (line 184)
PushResult(rs, r) == Append(rs, r)

\* isHtml(response)
isHtmlAnyText(contentType) ==
    contentType \in {"text/html", "application/xhtml+xml", "text/plain"}
isHtml(contentType) ==
    contentType \in {"text/html", "application/xhtml+xml"}

\* res.status === 405
NeedsRetryNever(status) == FALSE
NeedsRetry(status) == status = MethodNotAllowed

\* opts.crawl ? 'GET' : 'HEAD'
Method(crawl) == IF crawl THEN "GET" ELSE "HEAD"

\* getLinks(data, opts.url): data is the text of the body for a 'text'
\* response; for a 'stream' response it is a stream object, in which cheerio
\* finds no element
getLinks(data, baseUrl) ==
    IF data.kind = "text" THEN data.links ELSE <<>>

\* the crawl flag of a child task (lines 192-201)
ChildCrawlPrefixOnly(url, opts) ==
    opts.recurse /\ StartsWith(url, opts.path)
ChildCrawl(url, opts) ==
    LET crawl == opts.recurse /\ StartsWith(url, opts.path)
    IN  IF crawl /\ UrlParses(url) /\ UrlParses(opts.path)
        THEN UrlHost(url) = UrlHost(opts.path)
        ELSE crawl

\* opts.crawl && shouldRecurse
GoDeeper(crawl, shouldRecurse) == crawl /\ shouldRecurse

\* results.filter(x => x.state === BROKEN).length === 0
PassedAllOk(links) ==
    Len(SelectSeq(links, LAMBDA x : x.state # OK)) = 0
Passed(links) ==
    Len(SelectSeq(links, LAMBDA x : x.state = BROKEN)) = 0

----------------------------------------------------------------------------
(* The queue *)

Running == {"request", "retry", "returned"}

\* p-queue's pending count: jobs started whose promise has not settled
PendingCount == Cardinality({t \in 1..Len(tasks) : tasks[t].pc \in Running})

\* queue.onIdle() resolves: nothing queued and nothing pending
IdleQueueOnly(q, pending) == q = <<>>
Idle(q, pending) == q = <<>> /\ pending = 0

\* a crawl call: its CrawlOptions (url, parent, crawl), its position and
\* what it did: gated (went past the cache test), reqs (methods of the
\* requests sent), resps (statuses received), failed (a request failed),
\* parsed (content type of the response handed to getLinks, NotParsed when
\* getLinks was not called)
NotParsed == "none"
NewTask(url, parent, crawl) ==
    [url |-> url, parent |-> parent, crawl |-> crawl, pc |-> "queued",
     gated |-> FALSE, reqs |-> <<>>, resps |-> <<>>, failed |-> FALSE,
     parsed |-> NotParsed]

\* the crawl flag of the root task: crawl: true (line 78)
RootCrawlByOption == options.recurse
RootCrawl == TRUE

----------------------------------------------------------------------------
(* check(), lines 59-84: the options are completed, the queue is made and  *)
(* the root task is added to it. The root without the trailing slash is    *)
(* crawled one task at a time.                                             *)
Init ==
    /\ options \in
          { [path |-> p, recurse |-> r, concurrency |-> c,
             linksToSkip |-> LinksToSkip(s)] :
              p \in Roots, r \in BOOLEAN, c \in 0..MaxConcurrency,
              s \in UserSkips }
    /\ options.path = ROOT => options.concurrency = 1
    /\ cache = {}
    /\ results = <<>>
    /\ tasks = << NewTask(options.path, NoParent, RootCrawl) >>
    /\ queue = <<1>>
    /\ pagestarts = <<>>
    /\ pc = "onIdle"
    /\ result = NoResult
    /\ extraction = NoExtraction

(* The queue starts its oldest job when fewer than `concurrency` jobs are  *)
(* pending. crawl() runs from line 120 to its first await (line 151) or to *)
(* a return (lines 123, 142).                                              *)
Start ==
    /\ queue # <<>>
    /\ PendingCount < Concurrency(options)
    /\ LET t == Head(queue)
           opts == tasks[t]
       IN  /\ queue' = Tail(queue)
           /\ IF CacheHas(cache, opts.url)
              THEN \* line 123
                   /\ tasks' = [tasks EXCEPT ![t].pc = "returned"]
                   /\ UNCHANGED <<cache, results>>
              ELSE /\ cache' = cache \cup {opts.url}
                   /\ IF ShouldSkip(opts.url, options.linksToSkip)
                      THEN \* lines 135-142
                           /\ results' = PushSkipped(results,
                                  [url |-> opts.url, state |-> SKIPPED,
                                   parent |-> opts.parent])
                           /\ tasks' = [tasks EXCEPT ![t].pc = "returned",
                                                     ![t].gated = TRUE]
                      ELSE \* lines 146-156: the first request is issued
                           /\ tasks' = [tasks EXCEPT
                                  ![t].pc = "request",
                                  ![t].gated = TRUE,
                                  ![t].reqs = <<Method(opts.crawl)>>]
                           /\ UNCHANGED results
    /\ UNCHANGED <<options, pagestarts, pc, result, extraction>>

\* the child tasks added for the links of a page (lines 191-214)
ChildrenOfGrandparent(urls, opts) ==
    [i \in 1..Len(urls) |->
        NewTask(urls[i], opts.parent, ChildCrawl(urls[i], options))]
Children(urls, opts) ==
    [i \in 1..Len(urls) |->
        NewTask(urls[i], opts.url, ChildCrawl(urls[i], options))]

(* Lines 178-215: the result is appended and, when the task crawls and the *)
(* response is HTML, the links of the body are added to the queue.         *)
Finish(t, status, state, data, shouldRecurse, resps, failed, contentType) ==
    LET opts == tasks[t]
        done == [tasks EXCEPT
                    ![t].pc = "returned", ![t].resps = resps,
                    ![t].failed = failed,
                    ![t].parsed = IF GoDeeper(opts.crawl, shouldRecurse)
                                  THEN contentType ELSE NotParsed]
    IN  /\ results' = PushResult(results,
               [url |-> opts.url, status |-> status, state |-> state,
                parent |-> opts.parent])
        /\ IF GoDeeper(opts.crawl, shouldRecurse)
           THEN LET urls == getLinks(data, opts.url)
                IN  /\ Len(tasks) + Len(urls) <= MaxTasks
                    /\ pagestarts' = Append(pagestarts, opts.url)
                    /\ tasks' = done \o Children(urls, opts)
                    /\ queue' = queue \o
                          [i \in 1..Len(urls) |-> Len(tasks) + i]
           ELSE /\ tasks' = done
                /\ UNCHANGED <<pagestarts, queue>>
        /\ UNCHANGED <<options, cache, pc, result, extraction>>

\* the body a response carries: text for responseType 'text', else a stream
Body(url, responseType) ==
    [kind |-> responseType, links |-> SiteLinks(url)]

(* The first request of task t is answered (lines 151-174).                *)
Respond(t) ==
    /\ tasks[t].pc = "request"
    /\ \E status \in Statuses(tasks[t].url),
          contentType \in ContentTypes(tasks[t].url) :
          IF NeedsRetry(status)
          THEN \* lines 160-165: GET instead
               /\ tasks' = [tasks EXCEPT
                      ![t].pc = "retry",
                      ![t].reqs = Append(@, "GET"),
                      ![t].resps = Append(@, status)]
               /\ UNCHANGED <<options, cache, results, queue, pagestarts,
                              pc, result, extraction>>
          ELSE Finish(t, status, StateOf(status),
                      Body(tasks[t].url,
                           IF tasks[t].crawl THEN "text" ELSE "stream"),
                      isHtml(contentType),
                      Append(tasks[t].resps, status), FALSE, contentType)

(* The GET sent after a 405 is answered (lines 160-174).                   *)
RespondRetry(t) ==
    /\ tasks[t].pc = "retry"
    /\ \E status \in Statuses(tasks[t].url),
          contentType \in ContentTypes(tasks[t].url) :
          Finish(t, status, StateOf(status),
                 Body(tasks[t].url, "stream"), isHtml(contentType),
                 Append(tasks[t].resps, status), FALSE, contentType)

(* A request of task t fails at transport level: gaxios.request rejects    *)
(* and the catch of line 175 leaves status 0, BROKEN, '' and false.        *)
RequestFails(t) ==
    /\ tasks[t].pc \in {"request", "retry"}
    /\ Finish(t, Initially.status, Initially.state, Initially.data,
              Initially.shouldRecurse, tasks[t].resps, TRUE, NotParsed)

(* The promise of the job settles: p-queue counts it out.                  *)
Settle(t) ==
    /\ tasks[t].pc = "returned"
    /\ tasks' = [tasks EXCEPT ![t].pc = "settled"]
    /\ UNCHANGED <<options, cache, results, queue, pagestarts, pc, result,
                   extraction>>

(* check(), lines 85-94: onIdle resolves and the report is returned.       *)
Return ==
    /\ pc = "onIdle"
    /\ Idle(queue, PendingCount)
    /\ pc' = "done"
    /\ result' = [links |-> results, passed |-> Passed(results),
                  returned |-> TRUE]
    /\ UNCHANGED <<options, cache, results, queue, tasks, pagestarts,
                   extraction>>

Next ==
    \/ Start
    \/ \E t \in 1..Len(tasks) : Respond(t)
    \/ \E t \in 1..Len(tasks) : RespondRetry(t)
    \/ \E t \in 1..Len(tasks) : RequestFails(t)
    \/ \E t \in 1..Len(tasks) : Settle(t)
    \/ Return

Spec == Init /\ [][Next]_vars

\* check() as called with these options
InitWith(opts) ==
    /\ options = opts
    /\ cache = {}
    /\ results = <<>>
    /\ tasks = << NewTask(options.path, NoParent, RootCrawl) >>
    /\ queue = <<1>>
    /\ pagestarts = <<>>
    /\ pc = "onIdle"
    /\ result = NoResult
    /\ extraction = NoExtraction

(* The crawl of the site on host e with recurse = true.                    *)
ShopInit ==
    \E c \in 0..MaxConcurrency, s \in UserSkips :
        InitWith([path |-> SHOP, recurse |-> TRUE, concurrency |-> c,
                  linksToSkip |-> LinksToSkip(s)])

ShopSpec == ShopInit /\ [][Next]_vars

(* The crawl of the site on host s, with and without recurse.              *)
SiteInit ==
    \E r \in BOOLEAN, c \in 0..MaxConcurrency, s \in UserSkips :
        InitWith([path |-> SITE, recurse |-> r, concurrency |-> c,
                  linksToSkip |-> LinksToSkip(s)])

SiteSpec == SiteInit /\ [][Next]_vars

----------------------------------------------------------------------------
(* getLinks (links.ts) on its own: called once with a document and the url *)
(* of the page, of at most MaxElements elements drawn from Elements.       *)

Elements ==
    { [tag |-> "base", attr |-> "href", value |-> <<"/", "docs", "/">>],
      [tag |-> "base", attr |-> "href", value |-> <<"http://", "y", "/">>],
      [tag |-> "base", attr |-> "href", value |-> <<>>],
      [tag |-> "base", attr |-> "href", value |-> <<"C:\\", "docs">>],
      [tag |-> "a", attr |-> "href", value |-> <<"page.html">>],
      [tag |-> "a", attr |-> "href", value |-> <<"/", "abs">>],
      [tag |-> "a", attr |-> "href",
       value |-> <<"http://", "z", "/", "p", "#top">>],
      [tag |-> "a", attr |-> "href", value |-> BAD],
      [tag |-> "a", attr |-> "href", value |-> <<>>],
      [tag |-> "p", attr |-> "href", value |-> <<"page.html">>],
      [tag |-> "img", attr |-> "srcset",
       value |-> <<"a.png", " ", "1x", ",", " ", "b.png">>],
      [tag |-> "div", attr |-> "style",
       value |-> <<"background", ":", "url(", "bg.png", ")">>] }

Documents == UNION {[1..n -> Elements] : n \in 0..MaxElements}

PageUrls == {<<"http://", "x", "/", "a", "/", "b.html">>, ROOT}

LinksInit ==
    /\ extraction \in
          { [source |-> d, baseUrl |-> u, links |-> <<>>, called |-> FALSE] :
              d \in Documents, u \in PageUrls }
    /\ options = [path |-> extraction.baseUrl, recurse |-> FALSE,
                  concurrency |-> 0, linksToSkip |-> LinksToSkip(<<>>)]
    /\ cache = {}
    /\ results = <<>>
    /\ tasks = <<>>
    /\ queue = <<>>
    /\ pagestarts = <<>>
    /\ pc = "onIdle"
    /\ result = NoResult

\* getLinks(source, baseUrl, getBaseLinkAttributes())
Extract ==
    /\ ~extraction.called
    /\ extraction' =
          [extraction EXCEPT
              !.links = extractLinks(extraction.source, extraction.baseUrl,
                                     getBaseLinkAttributes),
              !.called = TRUE]
    /\ UNCHANGED <<options, cache, results, queue, tasks, pagestarts, pc,
                   result>>

LinksSpec == LinksInit /\ [][Extract]_vars

(* The run under fair scheduling: every request is answered or fails, the  *)
(* queue starts its jobs and promises settle. Taken with the two extreme   *)
(* concurrency limits: one task at a time, and the default limit, which    *)
(* this site never reaches.                                                *)
LiveInit == Init /\ options.concurrency \in {0, 1}

FairSpec ==
    /\ LiveInit /\ [][Next]_vars
    /\ WF_vars(Start)
    /\ WF_vars(\E t \in 1..Len(tasks) : Respond(t) \/ RequestFails(t))
    /\ WF_vars(\E t \in 1..Len(tasks) : RespondRetry(t) \/ RequestFails(t))
    /\ WF_vars(\E t \in 1..Len(tasks) : Settle(t))
    /\ WF_vars(Return)

----------------------------------------------------------------------------
(* Properties *)

TaskIds == 1..Len(tasks)
\* the positions of the results recorded for a url
ResultsOf(url) == {i \in 1..Len(results) : results[i].url = url}
\* the tasks for a url that went past the cache test of lines 122-125
PastGate(url) == {t \in TaskIds : tasks[t].url = url /\ tasks[t].gated}
\* the task has left crawl()
Left(t) == tasks[t].pc \in {"returned", "settled"}
HasStatus(r) == "status" \in DOMAIN r

\* C1: each url string is in results at most once, and at most one task for
\* a url goes past the cache test to the skip test or to a request.
C1_Dedup ==
    \A t \in TaskIds :
        /\ Cardinality(ResultsOf(tasks[t].url)) <= 1
        /\ Cardinality(PastGate(tasks[t].url)) <= 1
        /\ (tasks[t].reqs # <<>> \/ ResultsOf(tasks[t].url) # {})
              => PastGate(tasks[t].url) # {}

\* two tasks for one url are running at once: one went past the cache test
\* and waits for its response, the other was stopped by it
C1_Witness ==
    \E t, u \in TaskIds :
        /\ t # u /\ tasks[t].url = tasks[u].url
        /\ tasks[t].pc = "request" /\ tasks[t].gated
        /\ tasks[u].pc = "returned" /\ ~tasks[u].gated

\* C2: a task that went past the cache test has appended exactly one result
\* for its url when it leaves crawl() (none before), and when check returns
\* the urls of the report are the urls of the cache.
C2_OneResultPerVisit ==
    /\ \A t \in TaskIds :
          tasks[t].gated =>
              Cardinality(ResultsOf(tasks[t].url)) = (IF Left(t) THEN 1 ELSE 0)
    /\ result.returned =>
          {result.links[i].url : i \in 1..Len(result.links)} = cache

\* check has returned a report with a skipped link, a failed request and a
\* link fetched by the GET sent after a 405
C2_Witness ==
    /\ result.returned
    /\ \E i \in 1..Len(result.links) : result.links[i].state = SKIPPED
    /\ \E t \in TaskIds : tasks[t].failed
    /\ \E t \in TaskIds : Len(tasks[t].reqs) = 2 /\ ~tasks[t].failed

\* C3: the report has passed = true exactly when none of its links is BROKEN.
C3_PassedIffNoBroken ==
    result.returned =>
        (result.passed <=>
            \A i \in 1..Len(result.links) : result.links[i].state # BROKEN)

\* a report that passed although it has a skipped link
C3_Witness ==
    /\ result.returned /\ result.passed
    /\ \E i \in 1..Len(result.links) : result.links[i].state = SKIPPED

\* C4: the result of a fetched task is OK exactly when the status of its
\* final response is in [200,300); a failed request gives status 0, BROKEN.
C4_StatusMapping ==
    \A t \in TaskIds :
        (Left(t) /\ tasks[t].reqs # <<>>) =>
            \A i \in ResultsOf(tasks[t].url) :
                /\ HasStatus(results[i])
                /\ IF tasks[t].failed
                   THEN results[i].status = 0 /\ results[i].state = BROKEN
                   ELSE LET status == tasks[t].resps[Len(tasks[t].resps)]
                        IN  /\ results[i].status = status
                            /\ results[i].state =
                                  (IF 200 <= status /\ status <= 299
                                   THEN OK ELSE BROKEN)

\* a response with status 300 was recorded, and a failed request
C4_Witness ==
    /\ \E i \in 1..Len(results) :
          HasStatus(results[i]) /\ results[i].status = 300
    /\ \E i \in 1..Len(results) :
          HasStatus(results[i]) /\ results[i].status = 0

\* the url matches a built-in pattern or one of options.linksToSkip
MatchesSkip(url) ==
    \/ url[1] \in {"mailto:", "irc:", "data:"}
    \/ \E i \in 1..Len(options.linksToSkip) :
          RegExpTest(options.linksToSkip[i], url)

\* C5: a task whose url matches a skip pattern of the user or a built-in one
\* records a SKIPPED result without status, sends no request and is not
\* expanded.
C5_SkippedNeverFetched ==
    \A t \in TaskIds :
        MatchesSkip(tasks[t].url) =>
            /\ tasks[t].reqs = <<>>
            /\ tasks[t].gated => ResultsOf(tasks[t].url) # {}
            /\ \A i \in ResultsOf(tasks[t].url) :
                  results[i].state = SKIPPED /\ ~HasStatus(results[i])
            /\ \A i \in 1..Len(pagestarts) : pagestarts[i] # tasks[t].url
            /\ \A u \in TaskIds : tasks[u].parent # tasks[t].url

\* a built-in pattern and a pattern of the user have both skipped a link
C5_Witness ==
    /\ \E i \in 1..Len(results) :
          results[i].url = MAIL /\ results[i].state = SKIPPED
    /\ \E i \in 1..Len(results) :
          results[i].url = EVIL /\ results[i].state = SKIPPED

\* the url is a 'pagestart' event, or the parent of a task
Expanded(url) ==
    \/ \E i \in 1..Len(pagestarts) : pagestarts[i] = url
    \/ \E u \in TaskIds : tasks[u].parent = url

\* C6: a request that fails (the first one or the GET after a 405) leaves its
\* task with one result of status 0 and state BROKEN and without expansion;
\* the run goes on: until check returns some step is possible, and when it
\* returns every task has settled and every visited url has its result.
C6_FailureIsCaught ==
    /\ \A t \in TaskIds :
          tasks[t].failed =>
              /\ Left(t)
              /\ Cardinality(ResultsOf(tasks[t].url)) = 1
              /\ \A i \in ResultsOf(tasks[t].url) :
                    /\ HasStatus(results[i]) /\ results[i].status = 0
                    /\ results[i].state = BROKEN
              /\ ~Expanded(tasks[t].url)
    /\ pc = "onIdle" => ENABLED Next
    /\ result.returned =>
          \A t \in TaskIds :
              /\ tasks[t].pc = "settled"
              /\ tasks[t].gated =>
                    \E i \in 1..Len(result.links) :
                        result.links[i].url = tasks[t].url

\* check returned after the GET sent after a 405 failed for one task and a
\* later task got an OK result
C6_Witness ==
    /\ result.returned
    /\ \E t \in TaskIds :
          /\ tasks[t].failed /\ Len(tasks[t].reqs) = 2
          /\ \E i, k \in 1..Len(results) :
                /\ results[i].url = tasks[t].url
                /\ i < k /\ results[k].state = OK

\* C7: a task whose first request is answered 405 sends exactly one more
\* request, a GET, and no further one whatever the answer; its single result
\* has the status and state of that GET (405 then 200 gives 200, OK).
C7_RetryOnce ==
    \A t \in TaskIds :
        /\ Len(tasks[t].reqs) <= 2
        /\ (tasks[t].resps # <<>> /\ tasks[t].resps[1] = 405) =>
              /\ Len(tasks[t].reqs) = 2 /\ tasks[t].reqs[2] = "GET"
              /\ Left(t) =>
                    /\ Cardinality(ResultsOf(tasks[t].url)) = 1
                    /\ \A i \in ResultsOf(tasks[t].url) :
                          IF tasks[t].failed
                          THEN results[i].status = 0
                               /\ results[i].state = BROKEN
                          ELSE /\ Len(tasks[t].resps) = 2
                               /\ results[i].status = tasks[t].resps[2]
                               /\ results[i].state =
                                     (IF tasks[t].resps[2] \in 200..299
                                      THEN OK ELSE BROKEN)
                               /\ tasks[t].resps[2] = 200 =>
                                     results[i].state = OK

\* a HEAD was answered 405 and the GET 200; another task got 405 twice
C7_Witness ==
    \E t, u \in TaskIds :
        /\ tasks[t].reqs = <<"HEAD", "GET">> /\ tasks[t].resps = <<405, 200>>
        /\ Left(t)
        /\ \E i \in ResultsOf(tasks[t].url) :
              results[i].status = 200 /\ results[i].state = OK
        /\ tasks[u].resps = <<405, 405>> /\ Left(u)

\* a link found on a page, on another host than the root, matching no pattern
ForeignLink(t) ==
    /\ tasks[t].parent # NoParent
    /\ UrlHost(tasks[t].url) # UrlHost(options.path)
    /\ ~MatchesSkip(tasks[t].url)

\* C8: with recurse = true a link on another host than the root's, matching
\* no skip pattern, is probed with HEAD and gets a result, and is never
\* expanded: no pagestart for it and no task or result with it as parent.
C8_ForeignHostNotExpanded ==
    options.recurse =>
        \A t \in TaskIds :
            ForeignLink(t) =>
                /\ ~tasks[t].crawl
                /\ tasks[t].gated =>
                      tasks[t].reqs # <<>> /\ tasks[t].reqs[1] = "HEAD"
                /\ ~Expanded(tasks[t].url)
                /\ \A i \in 1..Len(results) :
                      results[i].parent # tasks[t].url
                /\ result.returned =>
                      \E i \in 1..Len(result.links) :
                          /\ result.links[i].url = tasks[t].url
                          /\ HasStatus(result.links[i])

\* with recurse = true and the root "http://x", the link to the host x.evil,
\* which starts like the root, answered 200 with an HTML content type to its
\* HEAD while the page on the root's host was expanded
C8_Witness ==
    /\ options.recurse /\ options.path = ROOT /\ result.returned
    /\ \E i \in 1..Len(pagestarts) : pagestarts[i] = PAGE
    /\ \E t \in TaskIds :
          /\ tasks[t].url = EVIL /\ tasks[t].reqs = <<"HEAD">>
          /\ tasks[t].resps = <<200>>

\* C9: check returns only when the queue is empty and every task has
\* settled, so the report holds a result for each link found during the run
\* and nothing is added to it or to the queue afterwards.
C9_ReturnsOnlyWhenIdle ==
    result.returned =>
        /\ queue = <<>>
        /\ \A t \in TaskIds :
              /\ tasks[t].pc = "settled"
              /\ \E i \in 1..Len(result.links) :
                    result.links[i].url = tasks[t].url
        /\ result.links = results

\* check returned after a crawl with two expanded pages under the root
C9_Witness ==
    /\ result.returned
    /\ Len(pagestarts) >= 3
    /\ Len(tasks) = MaxTasks

\* C10: when every request is answered or fails and the queue starts its
\* jobs, the run becomes idle and check returns, whatever cycles the links
\* of the site form.
C10_CheckReturns == <>(pc = "done")

\* check returned after following the page's link back to the root and the
\* page's link to itself
C10_Witness ==
    /\ pc = "done"
    /\ options.path = HOME
    /\ \E t \in TaskIds : tasks[t].url = HOME /\ tasks[t].parent = PAGE
    /\ \E t \in TaskIds : tasks[t].url = PAGE /\ tasks[t].parent = PAGE

\* C13: the number of crawl tasks started and not yet settled never exceeds
\* the concurrency option, or 100 when the option is absent or 0; while the
\* limit is reached the other tasks stay in the queue.
C13_ConcurrencyBound ==
    LET started == {t \in TaskIds : tasks[t].pc \in
                                       {"request", "retry", "returned"}}
        limit == IF options.concurrency = 0 THEN 100 ELSE options.concurrency
    IN  /\ Cardinality(started) <= limit
        /\ \A t \in TaskIds :
              tasks[t].pc = "queued" <=> \E i \in 1..Len(queue) : queue[i] = t

\* with a limit of 1, one task waits for its response and others wait in the
\* queue
C13_Witness ==
    /\ options.concurrency = 1
    /\ \E t \in TaskIds : tasks[t].pc = "request"
    /\ Len(queue) >= 2

\* C16: a second request is sent only by a task whose first request was a
\* HEAD; a task whose first request is a GET sends exactly one request.
C16_RetryOnlyAfterHead ==
    \A t \in TaskIds :
        /\ Len(tasks[t].reqs) = 2 => tasks[t].reqs[1] = "HEAD"
        /\ (tasks[t].reqs # <<>> /\ tasks[t].reqs[1] = "GET") =>
              Len(tasks[t].reqs) = 1

HtmlTypes == {"text/html", "application/xhtml+xml"}

\* C17: links are extracted, pagestart is emitted and child tasks are added
\* by a task only when its crawl flag is true, no request of it failed and
\* the content type of its final response is text/html or
\* application/xhtml+xml; a url has at most one pagestart.
C17_ExpansionNeedsAll ==
    /\ \A t \in TaskIds :
          /\ (tasks[t].gated /\ Expanded(tasks[t].url)) =>
                /\ tasks[t].crawl
                /\ ~tasks[t].failed /\ tasks[t].resps # <<>>
                /\ tasks[t].parsed \in HtmlTypes
          /\ tasks[t].parsed # NotParsed =>
                \E i \in 1..Len(pagestarts) : pagestarts[i] = tasks[t].url
          /\ ~tasks[t].gated => tasks[t].parsed = NotParsed
    /\ \A i, j \in 1..Len(pagestarts) : pagestarts[i] = pagestarts[j] => i = j

\* one page was expanded from an XHTML response, the root from an HTML one,
\* and a task with crawl flag true was answered with another type and left
\* without expansion
C17_Witness ==
    /\ \E t \in TaskIds : tasks[t].parsed = "application/xhtml+xml"
    /\ \E t \in TaskIds : tasks[t].parsed = "text/html"
    /\ \E t \in TaskIds :
          /\ tasks[t].crawl /\ Left(t) /\ ~tasks[t].failed
          /\ tasks[t].resps # <<>> /\ ~Expanded(tasks[t].url)

\* C18: the root task has crawl flag true whatever the recurse option and is
\* sent a GET; with recurse false every other task has crawl flag false, only
\* the root is expanded and every other result has the root as parent.
C18_RootAlwaysCrawled ==
    /\ tasks[1].url = options.path /\ tasks[1].parent = NoParent
    /\ tasks[1].crawl
    /\ tasks[1].reqs # <<>> => tasks[1].reqs[1] = "GET"
    /\ ~options.recurse =>
          /\ \A t \in TaskIds : t # 1 => ~tasks[t].crawl
          /\ \A i \in 1..Len(pagestarts) : pagestarts[i] = options.path
          /\ \A i \in 1..Len(results) :
                results[i].url # options.path =>
                    results[i].parent = options.path

\* with recurse false the root was expanded and check returned a report with
\* the root and three links of it
C18_Witness ==
    /\ ~options.recurse /\ result.returned
    /\ pagestarts = <<options.path>>
    /\ Len(result.links) = 4

\* C19: a result with a parent comes after the result of that parent, which
\* is not SKIPPED and belongs to a task with crawl flag true; the root's
\* result is the only one without parent and the first one.
C19_ParentComesFirst ==
    \A i \in 1..Len(results) :
        IF results[i].parent = NoParent
        THEN i = 1 /\ results[i].url = options.path
        ELSE /\ results[i].url # options.path \/ i # 1
             /\ \E j \in 1..(i - 1) :
                   /\ results[j].url = results[i].parent
                   /\ results[j].state # SKIPPED
             /\ \E t \in TaskIds :
                   /\ tasks[t].url = results[i].parent
                   /\ tasks[t].gated /\ tasks[t].crawl

\* a result whose parent is not the root: the link of the page back to the
\* root with the trailing slash
C19_Witness ==
    \E i \in 1..Len(results) :
        /\ results[i].url = HOME /\ results[i].parent = PAGE
        /\ \E j \in 1..(i - 1) : results[j].url = PAGE

\* the child tasks a url's page led to
ChildrenOf(url) == {u \in TaskIds : tasks[u].parent = url}

\* C20: a task with crawl flag true whose final response has an HTML content
\* type and a status outside [200,300) is recorded BROKEN and the links of
\* its page are added as child tasks with the page as parent.
C20_BrokenPageExpanded ==
    \A t \in TaskIds :
        ( /\ tasks[t].crawl /\ Left(t) /\ ~tasks[t].failed
          /\ tasks[t].parsed \in HtmlTypes
          /\ tasks[t].resps[Len(tasks[t].resps)] \notin 200..299 ) =>
            /\ \A i \in ResultsOf(tasks[t].url) : results[i].state = BROKEN
            /\ Cardinality(ChildrenOf(tasks[t].url)) =
                  Len(SiteLinks(tasks[t].url))

\* the crawl of the site on host e went as the scenario says: no request
\* failed and the missing page was answered 404 in the end
ShopScenario ==
    /\ options.path = SHOP /\ options.recurse /\ result.returned
    /\ \A t \in TaskIds : ~tasks[t].failed
    /\ \A i \in 1..Len(result.links) :
          result.links[i].url = GONE => result.links[i].status = 404

\* C11 as stated: the crawl of a root page linking to a healthy page (200), a
\* missing page (404) and a mailto: link with recurse = true yields exactly
\* 3 results, OK, BROKEN and SKIPPED, and passed = false.
C11_ThreeResults ==
    ShopScenario =>
        /\ Len(result.links) = 3
        /\ {result.links[i].state : i \in 1..Len(result.links)}
              = {OK, BROKEN, SKIPPED}
        /\ ~result.passed

\* C11 as amended: the crawl yields exactly 4 results: the root's, OK and
\* first, and those of the three links, OK for the healthy page, BROKEN with
\* status 404 for the missing page, SKIPPED for the mailto: link, each with
\* the root as parent; passed = false.
C11_FourResults ==
    ShopScenario =>
        /\ Len(result.links) = 4
        /\ result.links[1].url = SHOP /\ result.links[1].state = OK
        /\ \A i \in 2..4 : result.links[i].parent = SHOP
        /\ \E i \in 2..4 :
              result.links[i].url = GOOD /\ result.links[i].state = OK
        /\ \E i \in 2..4 :
              /\ result.links[i].url = GONE /\ result.links[i].state = BROKEN
              /\ result.links[i].status = 404
        /\ \E i \in 2..4 :
              result.links[i].url = MAIL /\ result.links[i].state = SKIPPED
        /\ ~result.passed

\* the scenario ended, with a pattern of the user before the built-in ones
C11_Witness ==
    /\ ShopScenario
    /\ Len(options.linksToSkip) = 4
    /\ \E i \in 1..Len(result.links) : result.links[i].url = MAIL

----------------------------------------------------------------------------
\* C12: a link found on a page whose resolution against the base url fails
\* is dropped before queuing: no crawl task is added for it, no request is
\* sent for it and no result of any state is recorded for it.
C12_UnparsedLinkDropped ==
    /\ \A t \in TaskIds :
          tasks[t].parent # NoParent => UrlParses(tasks[t].url)
    /\ \A i \in 1..Len(results) :
          results[i].parent # NoParent => UrlParses(results[i].url)

\* C14: the crawl flag of the task of a link found on a page is true only if
\* the recurse option is true, the link starts with the string of the root,
\* the link and the root both parse as urls and their hosts are equal; so a
\* link that does not parse never has it true, nor has a link on the host of
\* the root that does not start with the root.
C14_ChildCrawlFlag ==
    \A t \in TaskIds :
        tasks[t].parent # NoParent /\ tasks[t].crawl =>
            /\ options.recurse
            /\ StartsWith(tasks[t].url, options.path)
            /\ UrlParses(tasks[t].url)
            /\ UrlParses(options.path)
            /\ UrlHost(tasks[t].url) = UrlHost(options.path)

\* the <base href> elements of the document handed to getLinks, by position
BaseElements ==
    {i \in 1..Len(extraction.source) :
        /\ extraction.source[i].tag = "base"
        /\ extraction.source[i].attr = "href"}

\* the effective base url the claim states: the url of the page without a
\* <base href>, else the href of the first one resolved against that url
EffectiveBase ==
    IF BaseElements = {}
    THEN extraction.baseUrl
    ELSE LET first == CHOOSE i \in BaseElements :
                          \A j \in BaseElements : i <= j
         IN  NewURL(extraction.source[first].value, extraction.baseUrl).href

\* the document <base href="/docs/"><a href="page.html">
DocsExample ==
    << [tag |-> "base", attr |-> "href", value |-> <<"/", "docs", "/">>],
       [tag |-> "a", attr |-> "href", value |-> <<"page.html">>] >>

\* C15: getLinks resolves every link against the effective base url: the
\* href of the first <base href> of the document, itself resolved against the
\* url of the page, later ones being ignored, and the url of the page when
\* there is none; <base href="/docs/"><a href="page.html"> at
\* http://x/a/b.html gives http://x/docs/page.html.
C15_BaseResolution ==
    extraction.called =>
        /\ \A k \in 1..Len(extraction.links) :
              LET parsed == extraction.links[k]
                  url == NewURL(parsed.link, EffectiveBase)
              IN  /\ parsed.error = ~url.ok
                  /\ ~parsed.error => parsed.url = url.href
        /\ /\ extraction.source = DocsExample
           /\ extraction.baseUrl = <<"http://", "x", "/", "a", "/", "b.html">>
           => extraction.links =
                 << [link |-> <<"page.html">>, error |-> FALSE,
                     url |-> <<"http://", "x", "/", "docs", "/",
                               "page.html">>] >>

\* a document with two <base href> and a relative link was handed to
\* getLinks, and the link came out under the first base
C15_Witness ==
    /\ extraction.called
    /\ Cardinality(BaseElements) = 2
    /\ extraction.baseUrl = <<"http://", "x", "/", "a", "/", "b.html">>
    /\ \E k \in 1..Len(extraction.links) :
          /\ extraction.links[k].link = <<"page.html">>
          /\ extraction.links[k].url =
                <<"http://", "x", "/", "docs", "/", "page.html">>

====
